---- MODULE Spec2Model ----
(***************************************************************************)
(* A model of src/leaderboard_module.py: the JSON result store              *)
(* (load_results / save_results), record_quiz_result, get_leaderboard,      *)
(* generate_leaderboard_message and the /leaderboard command handler.       *)
(*                                                                         *)
(* Python values are modelled with their type: an int, a str, a datetime    *)
(* or None is a tagged record, a dict is a TLA+ record (a function on its   *)
(* keys), a list is a sequence.  The backing file is a sequence of JSON     *)
(* tokens, so that a cut-off write leaves a prefix that json.load rejects.  *)
(***************************************************************************)
EXTENDS Integers, Sequences, FiniteSets, TLC

VARIABLES
    dir,      \* does the directory "data" exist
    file,     \* data/leaderboard_results.json: [exists, readable, data]
    pc,       \* per caller: its position inside record_quiz_result
    args,     \* per caller: the arguments of its record_quiz_result call
    results,  \* per caller: the local list `results` of record_quiz_result
    log,      \* the calls that returned: arguments and new_result, in order
    raised,   \* has a record_quiz_result call raised
    clock,    \* datetime.now(), in ticks
    out       \* what the most recent operation returned to its caller

vars == <<dir, file, pc, args, results, log, raised, clock, out>>

-----------------------------------------------------------------------------
(* Bounds of the model *)

\* record_quiz_result calls in one behaviour
MaxCalls == 3

\* tokens a failing write may leave behind
MaxCut == 2

\* the callers that may be inside record_quiz_result at the same time
Procs == {"p1", "p2"}

-----------------------------------------------------------------------------
(* Python values *)

None == [t |-> "none", n |-> 0, s |-> ""]
IntV(i) == [t |-> "int", n |-> i, s |-> ""]
StrV(x) == [t |-> "str", n |-> 0, s |-> x]
\* a datetime, as seconds since some epoch
DateV(i) == [t |-> "datetime", n |-> i, s |-> ""]

Digit == <<"0", "1", "2", "3", "4", "5", "6", "7", "8", "9">>

RECURSIVE IntStr(_)
\* str() of an int: its decimal digits
IntStr(i) ==
    IF i < 0 THEN "-" \o IntStr(-i)
    ELSE IF i < 10 THEN Digit[i + 1]
    ELSE IntStr(i \div 10) \o Digit[(i % 10) + 1]

\* str(v) for the values the callers pass
Str(v) ==
    CASE v.t = "int" -> IntStr(v.n)
      [] v.t = "str" -> v.s
      [] v.t = "none" -> "None"
      [] v.t = "datetime" -> "T" \o IntStr(v.n)

\* bool(v): the truth value `if v:` tests
Truthy(v) ==
    CASE v.t = "int" -> v.n # 0
      [] v.t = "str" -> v.s # ""
      [] v.t = "none" -> FALSE
      [] v.t = "datetime" -> TRUE

\* datetime.now().isoformat()
IsoFormat(t) == "T" \o IntStr(t)

\* d.get(k, default) on a dict
Get(d, k, default) == IF k \in DOMAIN d THEN d[k] ELSE default

-----------------------------------------------------------------------------
(* The JSON text of the file, as tokens *)

LBr == [k |-> "[", v |-> <<>>]
RBr == [k |-> "]", v |-> <<>>]
Comma == [k |-> ",", v |-> <<>>]
\* bytes that are not UTF-8
BadBytes == [k |-> "bad", v |-> <<>>]
\* a JSON object: its members, in the order written
Obj(members) == [k |-> "obj", v |-> members]

\* the keys record_quiz_result writes, in the order of its dict literal
FieldOrder ==
    <<"quiz_id", "user_id", "user_name", "score", "correct_answers",
      "total_questions", "completion_time", "timestamp">>

\* json.dump of one dict: its members as <<key, value>> pairs
DumpObj(d) ==
    LET keys == SelectSeq(FieldOrder, LAMBDA k : k \in DOMAIN d)
    IN  Obj([i \in 1..Len(keys) |-> <<keys[i], d[keys[i]]>>])

\* json.load of one object: the dict of its members
ParseObj(tok) ==
    LET m == tok.v
    IN  [k \in {m[i][1] : i \in 1..Len(m)} |->
            m[CHOOSE i \in 1..Len(m) : m[i][1] = k][2]]

RECURSIVE DumpItems(_)
DumpItems(rs) ==
    IF rs = <<>> THEN <<>>
    ELSE IF Len(rs) = 1 THEN <<DumpObj(rs[1])>>
    ELSE <<DumpObj(rs[1]), Comma>> \o DumpItems(Tail(rs))

\* json.dump(results, f): the text written for a list of dicts
JsonDump(rs) == <<LBr>> \o DumpItems(rs) \o <<RBr>>

\* the text between the brackets is object (, object)*
ItemsWellFormed(body) ==
    /\ Len(body) % 2 = 1
    /\ \A i \in 1..Len(body) :
        body[i].k = (IF i % 2 = 1 THEN "obj" ELSE ",")

\* json.load(f) of a text: the value, or JSONDecodeError
JsonLoad(data) ==
    IF Len(data) = 1 /\ data[1].k = "obj"
    THEN [ok |-> TRUE, islist |-> FALSE, val |-> <<ParseObj(data[1])>>]
    ELSE IF /\ Len(data) >= 2
            /\ data[1] = LBr
            /\ data[Len(data)] = RBr
            /\ LET body == SubSeq(data, 2, Len(data) - 1)
               IN  body = <<>> \/ ItemsWellFormed(body)
    THEN [ok |-> TRUE, islist |-> TRUE,
          val |-> LET body == SubSeq(data, 2, Len(data) - 1)
                  IN  [i \in 1..((Len(body) + 1) \div 2) |->
                          ParseObj(body[2 * i - 1])]]
    ELSE [ok |-> FALSE, islist |-> FALSE, val |-> <<>>]

-----------------------------------------------------------------------------
(* The store *)

NoFile == [exists |-> FALSE, readable |-> TRUE, data |-> <<>>]

\* load_results(): what it returns or raises for a state of the file.
\* exc is "" when it returns; islist tells a list from another JSON value.
LoadResults(f) ==
    IF ~f.exists THEN [exc |-> "", islist |-> TRUE, val |-> <<>>]
    ELSE IF ~f.readable
    THEN [exc |-> "PermissionError", islist |-> FALSE, val |-> <<>>]
    ELSE IF \E i \in 1..Len(f.data) : f.data[i].k = "bad"
    THEN [exc |-> "UnicodeDecodeError", islist |-> FALSE, val |-> <<>>]
    ELSE LET j == JsonLoad(f.data)
         IN  IF j.ok THEN [exc |-> "", islist |-> j.islist, val |-> j.val]
             ELSE [exc |-> "", islist |-> TRUE, val |-> <<>>]

\* load_results() creates the directory when the file is missing
DirAfterLoad(d, f) == IF ~f.exists THEN TRUE ELSE d

\* a write of `text` at offset 0 of a file holding `old`
Overlay(text, old) ==
    IF Len(text) >= Len(old) THEN text
    ELSE text \o SubSeq(old, Len(text) + 1, Len(old))

\* a save that writes the new record alone
WrittenTextOfLast(rs, old) == Overlay(JsonDump(<<rs[Len(rs)]>>), old)

\* save_results: what a completed json.dump leaves in the file
WrittenText(rs, old) == Overlay(JsonDump(rs), old)

-----------------------------------------------------------------------------
(* record_quiz_result *)

\* completion_time: end_time - start_time in seconds for two datetimes, else 0
CompletionTime(start_time, end_time) ==
    IF start_time.t = "datetime" /\ end_time.t = "datetime"
    THEN end_time.n - start_time.n
    ELSE 0

\* new_result with the two counts in each other's place
NewResultSwapped(a, now) ==
    [quiz_id |-> Str(a.quiz_id),
     user_id |-> Str(a.user_id),
     user_name |-> a.user_name,
     score |-> a.score,
     correct_answers |-> a.total_questions,
     total_questions |-> a.correct_answers,
     completion_time |-> CompletionTime(a.start_time, a.end_time),
     timestamp |-> IsoFormat(now)]

\* the dict new_result built from the arguments at time `now`
NewResult(a, now) ==
    [quiz_id |-> Str(a.quiz_id),
     user_id |-> Str(a.user_id),
     user_name |-> a.user_name,
     score |-> a.score,
     correct_answers |-> a.correct_answers,
     total_questions |-> a.total_questions,
     completion_time |-> CompletionTime(a.start_time, a.end_time),
     timestamp |-> IsoFormat(now)]

\* the arguments the callers pass: quiz_id as an int or a str, a score, and
\* for the two times a normal pair, a missing start, and an end before the
\* start
QuizScoreTimeArgs ==
    {<<IntV(0), 2, DateV(0), DateV(5)>>,
     <<IntV(0), -1, None, DateV(5)>>,
     <<StrV("1"), 2, DateV(5), DateV(0)>>,
     <<StrV("1"), 3, DateV(0), DateV(5)>>}

Submissions ==
    {[quiz_id |-> x[1], user_id |-> IntV(7), user_name |-> "A",
      score |-> x[2], correct_answers |-> 1, total_questions |-> 2,
      start_time |-> x[3], end_time |-> x[4]] : x \in QuizScoreTimeArgs}

NoOut == [op |-> "none"]

\* a caller outside record_quiz_result has no arguments
NoArgs == [quiz_id |-> None]

\* the list load_results() returns now (empty when it raises)
Persisted == LoadResults(file).val

\* the call returns (ok) or raises: the caller is idle again and its local
\* list is gone
Return(p, ok) ==
    /\ pc' = [pc EXCEPT ![p] = "idle"]
    /\ results' = [results EXCEPT ![p] = <<>>]
    /\ args' = [args EXCEPT ![p] = NoArgs]
    /\ log' = IF ok
              THEN Append(log, [args |-> args[p],
                                rec |-> results[p][Len(results[p])]])
              ELSE log
    /\ raised' = (raised \/ ~ok)

\* lines 59-84: normalise the arguments, load the list, append new_result.
\* When load_results raises (line 69), or what it returned is no list
\* (line 84), the exception reaches the caller and nothing is written.
\* Time passes with every call: the clock ticks once.
Call(p, a) ==
    /\ pc[p] = "idle"
    /\ clock < MaxCalls
    /\ LET r == LoadResults(file)
       IN  IF r.exc = "" /\ r.islist
           THEN /\ results' = [results EXCEPT
                                 ![p] = Append(r.val, NewResult(a, clock))]
                /\ args' = [args EXCEPT ![p] = a]
                /\ pc' = [pc EXCEPT ![p] = "save"]
                /\ UNCHANGED raised
           ELSE /\ raised' = TRUE
                /\ UNCHANGED <<pc, args, results>>
    /\ dir' = DirAfterLoad(dir, file)
    /\ clock' = clock + 1
    /\ out' = NoOut
    /\ UNCHANGED <<file, log>>

\* save_results, lines 32-34: makedirs, then open(..., 'w') truncates the file
Open(p) ==
    /\ pc[p] = "save"
    /\ pc' = [pc EXCEPT ![p] = "write"]
    /\ dir' = TRUE
    /\ file' = [exists |-> TRUE, readable |-> file.readable, data |-> <<>>]
    /\ out' = NoOut
    /\ UNCHANGED <<args, results, log, raised, clock>>

\* save_results, lines 32-34: makedirs or open raises OSError
OpenFails(p) ==
    /\ pc[p] = "save"
    /\ Return(p, FALSE)
    /\ dir' \in {dir, TRUE}
    /\ out' = NoOut
    /\ UNCHANGED <<file, clock>>

\* save_results, line 35 and the close: json.dump writes the whole text
Write(p) ==
    /\ pc[p] = "write"
    /\ file' = [file EXCEPT !.data = WrittenText(results[p], file.data)]
    /\ Return(p, TRUE)
    /\ out' = NoOut
    /\ UNCHANGED <<dir, clock>>

\* save_results, line 35: json.dump or a write raises after k tokens were
\* written (a value json cannot encode, a full disk); the file is closed
WriteFails(p, k) ==
    /\ pc[p] = "write"
    /\ k < Len(JsonDump(results[p]))
    /\ file' = [file EXCEPT
                  !.data = Overlay(SubSeq(JsonDump(results[p]), 1, k), file.data)]
    /\ Return(p, FALSE)
    /\ out' = NoOut
    /\ UNCHANGED <<dir, clock>>

\* a caller enters record_quiz_result only when no other caller is inside
SeqCall(p, a) ==
    /\ \A q \in Procs : pc[q] = "idle"
    /\ out = NoOut
    /\ Call(p, a)

-----------------------------------------------------------------------------
(* get_leaderboard *)

\* the default of the parameter `limit`
DefaultLimit == 15

HasTime(x) == "completion_time" \in DOMAIN x

\* the keys without the minus sign: lowest score first
KeyLessAscending(a, b) ==
    LET ka == Get(a, "score", 0)
        kb == Get(b, "score", 0)
    IN  \/ ka < kb
        \/ /\ ka = kb
           /\ HasTime(a)
           /\ (HasTime(b) => a.completion_time < b.completion_time)

\* the order of the sort keys (-score, completion_time), where a missing
\* score is 0 and a missing completion_time is float('inf')
KeyLess(a, b) ==
    LET ka == 0 - Get(a, "score", 0)
        kb == 0 - Get(b, "score", 0)
    IN  \/ ka < kb
        \/ /\ ka = kb
           /\ HasTime(a)
           /\ (HasTime(b) => a.completion_time < b.completion_time)

\* x put into the sorted list s, behind every entry whose key is not greater
Insert(s, x) ==
    LET after == {i \in 1..Len(s) : KeyLess(x, s[i])}
        at == IF after = {} THEN Len(s) + 1
              ELSE CHOOSE i \in after : \A j \in after : i <= j
    IN  SubSeq(s, 1, at - 1) \o <<x>> \o SubSeq(s, at, Len(s))

RECURSIVE Sorted(_)
\* sorted(results, key=...): Python's sort is stable
Sorted(s) ==
    IF s = <<>> THEN <<>>
    ELSE Insert(Sorted(SubSeq(s, 1, Len(s) - 1)), s[Len(s)])

\* s[:limit]
SliceTo(s, limit) ==
    LET n == IF limit >= 0 THEN limit ELSE Len(s) + limit
    IN  IF n <= 0 THEN <<>>
        ELSE IF n >= Len(s) THEN s
        ELSE SubSeq(s, 1, n)

\* the filter without line 104: quiz_id compared as it was passed
FilteredNoStr(rs, quiz_id) ==
    IF quiz_id.t # "none"
    THEN SelectSeq(rs, LAMBDA r :
            /\ "quiz_id" \in DOMAIN r
            /\ quiz_id.t = "str"
            /\ r.quiz_id = quiz_id.s)
    ELSE rs

\* line 105: the entries of the quiz, compared with str(quiz_id)
Filtered(rs, quiz_id) ==
    IF quiz_id.t # "none"
    THEN SelectSeq(rs, LAMBDA r :
            "quiz_id" \in DOMAIN r /\ r.quiz_id = Str(quiz_id))
    ELSE rs

\* get_leaderboard(quiz_id, limit): the view, or the exception it raises.
\* A JSON object in place of the list is iterated by its keys, which are
\* strings and have no .get.
GetLeaderboard(f, quiz_id, limit) ==
    LET r == LoadResults(f)
    IN  IF r.exc # "" THEN [exc |-> r.exc, val |-> <<>>]
        ELSE IF ~r.islist
        THEN IF DOMAIN r.val[1] = {} THEN [exc |-> "", val |-> <<>>]
             ELSE [exc |-> "AttributeError", val |-> <<>>]
        ELSE [exc |-> "",
              val |-> SliceTo(Sorted(Filtered(r.val, quiz_id)), limit)]

-----------------------------------------------------------------------------
(* generate_leaderboard_message *)

\* format_time, for whole seconds
FormatTime(seconds) ==
    IntStr(seconds \div 60) \o "m " \o IntStr(seconds % 60) \o "s"

\* lines 140-145
Title(quiz_id, quiz_title) ==
    IF Truthy(quiz_title) THEN Str(quiz_title)
    ELSE IF Truthy(quiz_id) THEN "Quiz " \o Str(quiz_id)
    ELSE "All Quizzes"

\* lines 171-177
Medal(i) ==
    CASE i = 1 -> "gold"
      [] i = 2 -> "silver"
      [] i = 3 -> "bronze"
      [] OTHER -> ""

\* lines 155-184: the lines of one entry
EntryText(i, entry, total_questions) ==
    [medal |-> Medal(i),
     head |-> IntStr(i) \o ". " \o Get(entry, "user_name", "Unknown"),
     score |-> "Score: " \o IntStr(Get(entry, "score", 0)) \o "  ("
               \o IntStr(Get(entry, "correct_answers", 0)) \o "/"
               \o IntStr(total_questions) \o " correct)",
     time |-> "Time: " \o FormatTime(Get(entry, "completion_time", 0))]

\* generate_leaderboard_message(quiz_id, quiz_title)
GenerateLeaderboardMessage(f, quiz_id, quiz_title) ==
    LET lb == GetLeaderboard(f, quiz_id, DefaultLimit)
    IN  IF lb.exc # "" THEN [exc |-> lb.exc]
        ELSE IF lb.val = <<>>
        THEN [exc |-> "", empty |-> TRUE,
              text |-> "No quiz results recorded yet!"]
        ELSE [exc |-> "", empty |-> FALSE,
              title |-> Title(quiz_id, quiz_title),
              entries |-> [i \in 1..Len(lb.val) |->
                  EntryText(i, lb.val[i],
                            Get(lb.val[1], "total_questions", 0))],
              footer |-> "Use /play to start a new quiz!"]

-----------------------------------------------------------------------------
(* show_leaderboard_command *)

\* the integers the command arguments of the model can denote
IntLiterals == -1..9

\* int(s) of a decimal literal: the number, or ValueError
ParseInt(s) ==
    LET m == {i \in IntLiterals : IntStr(i) = s}
    IN  IF m = {} THEN [ok |-> FALSE, n |-> 0]
        ELSE [ok |-> TRUE, n |-> CHOOSE i \in m : TRUE]

\* the reply of the handler to context.args
ShowLeaderboardCommand(f, argv) ==
    IF argv # <<>> /\ ~ParseInt(argv[1]).ok
    THEN [exc |-> "", invalid |-> TRUE,
          text |-> "Invalid quiz ID. Please provide a valid number."]
    ELSE LET quiz_id == IF argv = <<>> THEN None
                        ELSE IntV(ParseInt(argv[1]).n)
             m == GenerateLeaderboardMessage(f, quiz_id, None)
         IN  IF m.exc # "" THEN [exc |-> m.exc]
             ELSE [exc |-> "", invalid |-> FALSE, quiz_id |-> quiz_id,
                   message |-> m]

-----------------------------------------------------------------------------
(* The queries, as operations of one caller *)

QuizIdQueries == {None, IntV(0), IntV(1)}
Limits == {-1, 0, 1, DefaultLimit}
TitleArgs == {None, StrV("Finals")}
CommandArgs == {<<>>, <<"0">>, <<"1">>, <<"x">>}

\* One request at a time: a query is answered when no caller is inside
\* record_quiz_result and the previous answer was taken.  None of the queries
\* writes the file; load_results may create the directory.
Query(result) ==
    /\ \A q \in Procs : pc[q] = "idle"
    /\ out = NoOut
    /\ out' = result
    /\ dir' = DirAfterLoad(dir, file)
    /\ UNCHANGED <<file, pc, args, results, log, raised, clock>>

DoLoadResults ==
    Query([op |-> "load_results", ret |-> LoadResults(file)])

DoGetLeaderboard(quiz_id, limit) ==
    Query([op |-> "get_leaderboard", quiz_id |-> quiz_id, limit |-> limit,
           ret |-> GetLeaderboard(file, quiz_id, limit)])

DoGenerateLeaderboardMessage(quiz_id, quiz_title) ==
    Query([op |-> "generate_leaderboard_message", quiz_id |-> quiz_id,
           quiz_title |-> quiz_title,
           ret |-> GenerateLeaderboardMessage(file, quiz_id, quiz_title)])

DoShowLeaderboardCommand(argv) ==
    Query([op |-> "show_leaderboard_command", argv |-> argv,
           ret |-> ShowLeaderboardCommand(file, argv)])

\* the caller takes the answer of its query
TakeAnswer ==
    /\ out # NoOut
    /\ out' = NoOut
    /\ UNCHANGED <<dir, file, pc, args, results, log, raised, clock>>

-----------------------------------------------------------------------------
(* The files the queries may find: written by this program or by another *)

\* records of a file found at start
MaxStored == 3

\* dicts with all the keys the ranking reads, without completion_time, and
\* without score
StoredRecords ==
    {[quiz_id |-> q, user_name |-> "A", score |-> sc, total_questions |-> 2,
      completion_time |-> ct] : q \in {"0", "1"}, sc \in {-1, 2}, ct \in {3, 5}}
    \cup {[quiz_id |-> "1", user_name |-> "B", score |-> 2,
            total_questions |-> 4, completion_time |-> 3]}
    \cup {[quiz_id |-> q, user_name |-> "C", score |-> 2] : q \in {"0", "1"}}
    \cup {[quiz_id |-> "1", user_name |-> "D", completion_time |-> 3]}

StoredLists == UNION {[1..n -> StoredRecords] : n \in 0..MaxStored}

TextFile(data) == [exists |-> TRUE, readable |-> TRUE, data |-> data]

\* a missing file, a list of records, a file that cannot be opened, bytes
\* that are not UTF-8, cut-off texts, and a JSON object in place of the list
StoredFiles ==
    {NoFile}
    \cup {TextFile(JsonDump(rs)) : rs \in StoredLists}
    \cup {[exists |-> TRUE, readable |-> FALSE, data |-> JsonDump(<<r>>)] :
            r \in StoredRecords}
    \cup {TextFile(<<LBr, BadBytes, RBr>>), TextFile(<<>>), TextFile(<<LBr>>)}
    \cup {TextFile(<<LBr, DumpObj(r), Comma, RBr>>) : r \in StoredRecords}
    \cup {TextFile(<<DumpObj(r)>>) : r \in StoredRecords}

-----------------------------------------------------------------------------
(* Specifications *)

Init ==
    /\ dir = FALSE
    /\ file = NoFile
    /\ pc = [p \in Procs |-> "idle"]
    /\ args = [p \in Procs |-> NoArgs]
    /\ results = [p \in Procs |-> <<>>]
    /\ log = <<>>
    /\ raised = FALSE
    /\ clock = 0
    /\ out = NoOut

\* callers that may overlap
Next ==
    \E p \in Procs :
        \/ \E a \in Submissions : Call(p, a)
        \/ Open(p)
        \/ OpenFails(p)
        \/ Write(p)
        \/ \E k \in 0..MaxCut : WriteFails(p, k)

Spec == Init /\ [][Next]_vars

\* one caller at a time
NextSeq ==
    \E p \in Procs :
        \/ \E a \in Submissions : SeqCall(p, a)
        \/ Open(p)
        \/ OpenFails(p)
        \/ Write(p)
        \/ \E k \in 0..MaxCut : WriteFails(p, k)
        \/ DoLoadResults
        \/ \E q \in QuizIdQueries, l \in Limits : DoGetLeaderboard(q, l)
        \/ \E q \in QuizIdQueries, t \in TitleArgs :
                DoGenerateLeaderboardMessage(q, t)
        \/ \E a \in CommandArgs : DoShowLeaderboardCommand(a)
        \/ TakeAnswer

SpecSeq == Init /\ [][NextSeq]_vars

\* the queries, on any file
InitStore ==
    /\ file \in StoredFiles
    /\ dir = file.exists
    /\ pc = [p \in Procs |-> "idle"]
    /\ args = [p \in Procs |-> NoArgs]
    /\ results = [p \in Procs |-> <<>>]
    /\ log = <<>>
    /\ raised = FALSE
    /\ clock = 0
    /\ out = NoOut

NextStore ==
    \/ DoLoadResults
    \/ \E q \in QuizIdQueries, l \in Limits : DoGetLeaderboard(q, l)
    \/ \E q \in QuizIdQueries, t \in TitleArgs :
            DoGenerateLeaderboardMessage(q, t)
    \/ \E a \in CommandArgs : DoShowLeaderboardCommand(a)
    \/ TakeAnswer

SpecStore == InitStore /\ [][NextStore]_vars

-----------------------------------------------------------------------------
(* Properties *)

Idle == \A p \in Procs : pc[p] = "idle"

Min(a, b) == IF a <= b THEN a ELSE b

RECURSIVE IsSubseq(_, _)
\* a can be had from b by dropping entries
IsSubseq(a, b) ==
    IF a = <<>> THEN TRUE
    ELSE IF b = <<>> THEN FALSE
    ELSE IF a[1] = b[1] THEN IsSubseq(Tail(a), Tail(b))
    ELSE IsSubseq(a, Tail(b))

IsPrefix(a, b) == Len(a) <= Len(b) /\ a = SubSeq(b, 1, Len(a))

\* the new_result dicts of the calls that returned, in order of return
Recorded == [i \in 1..Len(log) |-> log[i].rec]

\* a stored record carries the fields of a submission, the two identifiers
\* in their string form
Carries(r, a) ==
    /\ r.quiz_id = Str(a.quiz_id)
    /\ r.user_id = Str(a.user_id)
    /\ r.user_name = a.user_name
    /\ r.score = a.score
    /\ r.correct_answers = a.correct_answers
    /\ r.total_questions = a.total_questions

\* C1: Round-trip.  From an absent store, after N record_quiz_result calls,
\* one at a time, none of which raised, load_results returns exactly N
\* records, the i-th carrying the fields of the i-th submission.
C1_RoundTrip ==
    (Idle /\ ~raised) =>
        /\ LoadResults(file).exc = ""
        /\ Len(Persisted) = Len(log)
        /\ \A i \in 1..Len(log) : Carries(Persisted[i], log[i].args)
        /\ out.op = "load_results" => out.ret.val = Persisted

C1_Witness ==
    /\ out.op = "load_results"
    /\ ~raised
    /\ Len(out.ret.val) >= 2
    /\ \E i \in 1..Len(log) :
        log[i].args.quiz_id.t = "int" /\ out.ret.val[i].quiz_id = "0"

\* C2: a record once appended stays.  Between calls made one at a time
\* (failing ones included) and queries, every record whose call returned is
\* still in the persisted collection, unchanged and in the order appended.
C2_RecordsStay == Idle => IsSubseq(Recorded, Persisted)

\* C3: append is atomic.  When a call raises in save_results, the persisted
\* collection is the one persisted before the call (the one the call
\* loaded).
C3_AtomicAppend ==
    [][\A p \in Procs :
        (pc[p] \in {"save", "write"} /\ pc'[p] = "idle" /\ log' = log) =>
            Persisted' = SubSeq(results[p], 1, Len(results[p]) - 1)]_vars

\* C4: last write wins on the full collection.  A save that completes on a
\* file holding no more than its own text leaves exactly the list its caller
\* loaded plus its new record: what others appended since the load is lost.
C4_LastWriteWins ==
    [][\A p \in Procs :
        (/\ pc[p] = "write" /\ pc'[p] = "idle" /\ log' # log
         /\ Len(file.data) <= Len(JsonDump(results[p]))) =>
            Persisted' = results[p]]_vars

\* both calls returned without error and only one new record is persisted
C4_Witness ==
    /\ Idle
    /\ ~raised
    /\ Len(log) = 2
    /\ Len(Persisted) = 1
    /\ Persisted[1] = log[2].rec

-----------------------------------------------------------------------------
(* Properties of the view *)

IsView == out.op = "get_leaderboard" /\ out.ret.exc = ""

\* the score and the completion time a record counts with
ScoreOf(r) == IF "score" \in DOMAIN r THEN r.score ELSE 0
NoSlower(a, b) ==
    HasTime(b) => (HasTime(a) /\ a.completion_time <= b.completion_time)
SameKeys(a, b) ==
    /\ ScoreOf(a) = ScoreOf(b)
    /\ HasTime(a) = HasTime(b)
    /\ HasTime(a) => a.completion_time = b.completion_time

\* the persisted records of the quiz asked for, in insertion order
Matching(quiz_id) ==
    SelectSeq(Persisted, LAMBDA r :
        quiz_id.t = "none"
        \/ ("quiz_id" \in DOMAIN r /\ r.quiz_id = Str(quiz_id)))

\* C5: ranking order.  Adjacent entries (a, b) of a view have
\* a.score > b.score, or equal scores and a no slower than b, a missing
\* completion time counting as infinitely slow; entries equal on both keys
\* are in insertion order.
C5_RankingOrder ==
    IsView =>
        LET v == out.ret.val
        IN  /\ \A i \in 1..(Len(v) - 1) :
                \/ ScoreOf(v[i]) > ScoreOf(v[i + 1])
                \/ ScoreOf(v[i]) = ScoreOf(v[i + 1]) /\ NoSlower(v[i], v[i + 1])
            /\ \A i \in 1..Len(v) :
                IsPrefix(SelectSeq(v, LAMBDA r : SameKeys(r, v[i])),
                         SelectSeq(Matching(out.quiz_id),
                                   LAMBDA r : SameKeys(r, v[i])))

C5_Witness ==
    /\ IsView
    /\ LET v == out.ret.val
       IN  /\ Len(v) = 3
           /\ ScoreOf(v[1]) = ScoreOf(v[2]) /\ SameKeys(v[1], v[2])
           /\ v[1] # v[2]
           /\ ScoreOf(v[2]) = ScoreOf(v[3]) /\ ~HasTime(v[3]) /\ HasTime(v[2])
           /\ Persisted[1] = v[3]

\* the view of all quizzes for the same limit, cut down to the quiz asked for
Unfiltered ==
    SelectSeq(GetLeaderboard(file, None, out.limit).val,
              LAMBDA r : "quiz_id" \in DOMAIN r /\ r.quiz_id = Str(out.quiz_id))

OnlyTheQuiz ==
    \A i \in 1..Len(out.ret.val) :
        /\ "quiz_id" \in DOMAIN out.ret.val[i]
        /\ out.ret.val[i].quiz_id = Str(out.quiz_id)

\* C6 as stated: the view of quiz X holds only records of X and is a
\* subsequence of the view of all quizzes restricted to X.
C6_FilterSubsequence ==
    (IsView /\ out.quiz_id # None) =>
        OnlyTheQuiz /\ IsSubseq(out.ret.val, Unfiltered)

\* C6, amended: the view of quiz X holds only records of X; when the limit
\* is at least the number of persisted records it is the view of all quizzes
\* restricted to X, and for a smaller limit >= 0 that restriction is a prefix
\* of it.
C6_FilterPrefix ==
    (IsView /\ out.quiz_id # None) =>
        /\ OnlyTheQuiz
        /\ out.limit >= Len(Persisted) => out.ret.val = Unfiltered
        /\ out.limit >= 0 => IsPrefix(Unfiltered, out.ret.val)

C6_Witness ==
    /\ IsView
    /\ out.quiz_id = IntV(1)
    /\ out.limit >= Len(Persisted)
    /\ Len(out.ret.val) = 2
    /\ Len(Persisted) = 3
    /\ out.ret.val[1] = Persisted[3]

\* C7: truncation.  A view for limit L has min(L, matching records) entries
\* when L > 0 and none when L <= 0.
C7_Truncation ==
    IsView =>
        Len(out.ret.val) =
            IF out.limit > 0 THEN Min(out.limit, Len(Matching(out.quiz_id)))
            ELSE 0

\* C8: load_results never fails.  It returns a list whatever the state of
\* the file: the persisted list, or the empty list when the file is absent,
\* unreadable or not the text of a list.
C8_LoadNeverFails ==
    out.op = "load_results" => (out.ret.exc = "" /\ out.ret.islist)

\* C9: every record persisted by record_quiz_result has
\* completion_time >= 0.
C9_CompletionTimeNotNegative ==
    \A i \in 1..Len(Persisted) : Persisted[i].completion_time >= 0

\* C10: title resolution.  A supplied quiz_title is the title; otherwise a
\* quiz_id other than None gives "Quiz <quiz_id>", the identifier 0 included;
\* only without a quiz_id is the title "All Quizzes".
C10_TitleResolution ==
    /\ (out.op = "generate_leaderboard_message" /\ out.ret.exc = ""
            /\ ~out.ret.empty) =>
        out.ret.title =
            IF out.quiz_title # None THEN Str(out.quiz_title)
            ELSE IF out.quiz_id # None THEN "Quiz " \o Str(out.quiz_id)
            ELSE "All Quizzes"
    /\ (out.op = "show_leaderboard_command" /\ out.ret.exc = ""
            /\ ~out.ret.invalid /\ ~out.ret.message.empty) =>
        out.ret.message.title =
            IF out.argv = <<>> THEN "All Quizzes" ELSE "Quiz " \o out.argv[1]

====
